---- MODULE Spec2Model ----
(***************************************************************************)
(* Model of syncthing-deconflict.js: the conflict-resolution pipeline      *)
(* (handleFileEvent), the startup ghost sweep and startup scan, the live   *)
(* watcher, the merge orchestrator and the audit log.                      *)
(*                                                                         *)
(* File names and paths are strings; the regular expressions of the source *)
(* are evaluated character by character on them.  JavaScript runs one      *)
(* callback at a time, so every stretch of handleFileEvent between two     *)
(* awaits is one atomic action.                                            *)
(***************************************************************************)
EXTENDS Naturals, Integers, Sequences, FiniteSets, Bags, TLC

(***************************************************************************)
(* Strings                                                                 *)
(***************************************************************************)
Ch(s, i) == SubSeq(s, i, i)

\* Printable ASCII in code-unit order (the double quote, the backslash and
\* the backtick, which no file name of the model uses, are left out).
Ascii == " !#$%&'()*+,-./0123456789:;<=>?@ABCDEFGHIJKLMNOPQRSTUVWXYZ[]^_abcdefghijklmnopqrstuvwxyz{|}~"

CodeUnit(c) == CHOOSE i \in 1..Len(Ascii) : Ch(Ascii, i) = c

UpperCase == "ABCDEFGHIJKLMNOPQRSTUVWXYZ"
LowerCase == "abcdefghijklmnopqrstuvwxyz"
Digits == "0123456789"

InStr(c, alphabet) == \E i \in 1..Len(alphabet) : Ch(alphabet, i) = c

LowerCh(c) ==
    IF InStr(c, UpperCase)
    THEN Ch(LowerCase, CHOOSE i \in 1..Len(UpperCase) : Ch(UpperCase, i) = c)
    ELSE c

RECURSIVE LowerFrom(_, _)
LowerFrom(s, i) ==
    IF i > Len(s) THEN "" ELSE LowerCh(Ch(s, i)) \o LowerFrom(s, i + 1)

\* String.prototype.toLowerCase on ASCII
ToLowerCase(s) == LowerFrom(s, 1)

IsDigit(c) == InStr(c, Digits)
\* [A-Z0-9] under the i flag
IsAlnumI(c) == IsDigit(c) \/ InStr(c, UpperCase) \/ InStr(c, LowerCase)

AllDigits(s) == \A i \in 1..Len(s) : IsDigit(Ch(s, i))
AllAlnumI(s) == \A i \in 1..Len(s) : IsAlnumI(Ch(s, i))

\* the literal lit occurs in s at position i (1-based)
LitAt(s, i, lit) ==
    /\ i >= 1
    /\ i + Len(lit) - 1 <= Len(s)
    /\ SubSeq(s, i, i + Len(lit) - 1) = lit

\* the same under the i flag (lit given in lower case)
LitAtI(s, i, lit) ==
    /\ i >= 1
    /\ i + Len(lit) - 1 <= Len(s)
    /\ \A k \in 1..Len(lit) : LowerCh(Ch(s, i + k - 1)) = Ch(lit, k)

StartsWith(s, lit) == LitAt(s, 1, lit)
EndsWith(s, lit) == Len(lit) <= Len(s) /\ LitAt(s, Len(s) - Len(lit) + 1, lit)

SetMin(S) == CHOOSE x \in S : \A y \in S : x <= y
SetMax(S) == CHOOSE x \in S : \A y \in S : x >= y

\* s < t in the order of Array.prototype.sort without a comparator
\* (code-unit order, a proper prefix first)
StrLess(s, t) ==
    \E d \in 1..(Len(t)) :
        /\ \A i \in 1..(d - 1) : i <= Len(s) /\ Ch(s, i) = Ch(t, i)
        /\ \/ d = Len(s) + 1
           \/ d <= Len(s) /\ CodeUnit(Ch(s, d)) < CodeUnit(Ch(t, d))

(***************************************************************************)
(* Paths (POSIX, absolute and normalised)                                  *)
(***************************************************************************)
SlashPositions(p) == {i \in 1..Len(p) : Ch(p, i) = "/"}

\* path.basename
Basename(p) ==
    IF SlashPositions(p) = {} THEN p
    ELSE SubSeq(p, SetMax(SlashPositions(p)) + 1, Len(p))

\* path.dirname
Dirname(p) ==
    IF SlashPositions(p) = {} THEN "."
    ELSE IF SetMax(SlashPositions(p)) = 1 THEN "/"
    ELSE SubSeq(p, 1, SetMax(SlashPositions(p)) - 1)

\* path.join(a, b): a "." segment is dropped by the normalisation
Join(a, b) == IF b = "." THEN a ELSE a \o "/" \o b

\* path.resolve of one argument: an absolute path is returned as it is,
\* a relative one is taken from the working directory
Cwd == "/r"
Resolve(p) == IF StartsWith(p, "/") THEN p ELSE IF p \in {".", "./"} THEN Cwd ELSE Join(Cwd, p)

\* d is path p itself or an ancestor directory of p
IsUnder(p, d) == p = d \/ StartsWith(p, d \o "/")

\* path.relative(from, to) for a path `to` below `from`
Relative(from, to) == SubSeq(to, Len(from) + 2, Len(to))

(***************************************************************************)
(* Configuration (CONFIG, lines 16-33)                                     *)
(***************************************************************************)
SyncRoot == "/r"
VersionsDirName == ".stversions"
GitBinary == "git"
\* the default of ALLOWED_EXTENSIONS
AllowedExtensionsEnv == "md,txt,json,yaml,yml,org,canvas,taskpaper"

\* the positions of the separators in s, with the two ends
Cuts(s, sep) == {0, Len(s) + 1} \cup {i \in 1..Len(s) : Ch(s, i) = sep}

\* String.prototype.split on a one-character separator: the pieces between
\* consecutive cuts
Split(s, sep) ==
    [k \in 1..(Cardinality(Cuts(s, sep)) - 1) |->
        SubSeq(s,
               (CHOOSE a \in Cuts(s, sep) :
                    Cardinality({c \in Cuts(s, sep) : c < a}) = k - 1) + 1,
               (CHOOSE b \in Cuts(s, sep) :
                    Cardinality({c \in Cuts(s, sep) : c < b}) = k) - 1)]

\* String.prototype.trim (blanks)
Trim(s) ==
    IF \A i \in 1..Len(s) : Ch(s, i) = " " THEN ""
    ELSE SubSeq(s, SetMin({i \in 1..Len(s) : Ch(s, i) # " "}),
                   SetMax({i \in 1..Len(s) : Ch(s, i) # " "}))

\* CONFIG.allowedExtensions
AllowedExtensions ==
    LET parts == Split(AllowedExtensionsEnv, ",")
    IN  [i \in 1..Len(parts) |-> ToLowerCase(Trim(parts[i]))]

\* Array.prototype.includes
Includes(arr, x) == \E i \in 1..Len(arr) : arr[i] = x

(***************************************************************************)
(* The regular expressions of the source                                   *)
(***************************************************************************)
\* sync-conflict-([0-9]{8})-([0-9]{6})-([A-Z0-9]{7}) under the i flag,
\* anchored at position j
ConflictTokenLen == Len("sync-conflict-") + 8 + 1 + 6 + 1 + 7
ConflictTokenAt(s, j) ==
    /\ j + ConflictTokenLen - 1 <= Len(s)
    /\ LitAtI(s, j, "sync-conflict-")
    /\ AllDigits(SubSeq(s, j + 14, j + 21))
    /\ Ch(s, j + 22) = "-"
    /\ AllDigits(SubSeq(s, j + 23, j + 28))
    /\ Ch(s, j + 29) = "-"
    /\ AllAlnumI(SubSeq(s, j + 30, j + 36))

\* (?:\.|%2F) at position i: the length matched, 0 when neither matches
SeparatorAt(s, i) ==
    IF LitAt(s, i, ".") THEN 1 ELSE IF LitAtI(s, i, "%2f") THEN 3 ELSE 0

NoMatch == [matched |-> FALSE]

\* fileName.match(conflictRegex), line 205:
\*   /^(.*?)(?:\.|%2F)sync-conflict-([0-9]{8})-([0-9]{6})-([A-Z0-9]{7})\.?(.*)$/i
\* The lazy first group takes the shortest prefix after which the rest
\* matches; the tail \.?(.*)$ matches any remainder, a leading dot going to
\* the optional \. and not to the last group.
ConflictMatch(fileName) ==
    LET starts == {i \in 1..Len(fileName) :
                      /\ SeparatorAt(fileName, i) > 0
                      /\ ConflictTokenAt(fileName, i + SeparatorAt(fileName, i))}
    IN  IF starts = {} THEN NoMatch
        ELSE LET i == SetMin(starts)
                 j == i + SeparatorAt(fileName, i)
                 k == j + ConflictTokenLen
                 e == IF LitAt(fileName, k, ".") THEN k + 1 ELSE k
             IN  [matched   |-> TRUE,
                  baseName  |-> SubSeq(fileName, 1, i - 1),
                  date      |-> SubSeq(fileName, j + 14, j + 21),
                  time      |-> SubSeq(fileName, j + 23, j + 28),
                  deviceId  |-> SubSeq(fileName, j + 30, j + 36),
                  extension |-> SubSeq(fileName, e, Len(fileName))]

\* /[.~]syncthing[.~].*\.tmp$/i  (lines 72 and 154)
IsSyncthingTemp(file) ==
    \E i \in 1..Len(file) :
        /\ Ch(file, i) \in {".", "~"}
        /\ LitAtI(file, i + 1, "syncthing")
        /\ Ch(file, i + 10) \in {".", "~"}
        /\ Len(file) - 3 >= i + 11
        /\ LitAtI(file, Len(file) - 3, ".tmp")

\* /sync-conflict-[0-9]{8}-[0-9]{6}-[A-Z0-9]{7}/i  (line 292)
LooksLikeConflict(base) == \E j \in 1..Len(base) : ConflictTokenAt(base, j)

\* escapeRegex (line 44) followed by new RegExp (lines 245-247): every
\* character of baseName and extension is matched literally, so the
\* anchored pattern ^base~([0-9]{8})-([0-9]{6})(\.ext)?$ accepts exactly
\* the strings built below; the pattern has no i flag.
BackupRegexTest(baseName, extension, name) ==
    LET b == Len(baseName)
    IN  /\ LitAt(name, 1, baseName)
        /\ Ch(name, b + 1) = "~"
        /\ Len(name) >= b + 16
        /\ AllDigits(SubSeq(name, b + 2, b + 9))
        /\ Ch(name, b + 10) = "-"
        /\ AllDigits(SubSeq(name, b + 11, b + 16))
        /\ IF extension # ""
           THEN SubSeq(name, b + 17, Len(name)) = "." \o extension
           ELSE Len(name) = b + 16

\* the watcher's ignored pattern /(^|[\/\\])\.|node_modules/  (line 309)
WatcherIgnores(p) ==
    \/ StartsWith(p, ".")
    \/ \E i \in 1..Len(p) : Ch(p, i) = "/" /\ Ch(p, i + 1) = "."
    \/ \E i \in 1..Len(p) : LitAt(p, i, "node_modules")

(***************************************************************************)
(* Bounds                                                                  *)
(***************************************************************************)
\* events reported by the watcher
MaxLive == 2
\* deletions made by other programs (Syncthing, the user)
MaxExternal == 1
\* operations that fail: a file operation that throws, a merge tool that
\* cannot be launched, is ended by a signal or exits with an error
MaxFaults == 1
\* distinct readings of the clock that name a backup copy
MaxTime == 2
\* times the program is started
MaxRuns == 2

(***************************************************************************)
(* The file tree of the model                                              *)
(***************************************************************************)
WatchDir == "/r/w"
Original == "/r/w/note.md"
\* two artifacts of the same LogicalFile, one with each separator
ArtifactA == "/r/w/note.sync-conflict-20240501-120000-ABC1234.md"
ArtifactB == "/r/w/note%2Fsync-conflict-20240502-130000-xyz9876.md"
\* conflict names whose extension is not allow-listed
ArtifactPng == "/r/w/pic.sync-conflict-20240501-120000-ABC1234.PNG"
ArtifactNoExt == "/r/w/todo.sync-conflict-20240501-120000-ABC1234"
\* an artifact whose original, gone.MD, does not exist
ArtifactOrphan == "/r/w/gone.sync-conflict-20240501-120000-ABC1234.MD"
\* the transient file Syncthing leaves for ArtifactA (Linux naming)
TempA == "/r/w/.syncthing.note.sync-conflict-20240501-120000-ABC1234.md.tmp"
VersionsFolder == "/r/.stversions/w"
SnapshotOld == "note~20240101-010101.md"
SnapshotNew == "note~20240301-020202.md"
\* a transient-looking file kept in the version history
VersionsTemp == "/r/.stversions/w/.syncthing.note.md.tmp"
MergeLogPath == "/r/Logs/merge-log.md"

LocalText == <<"local line">>
\* a text that holds the markers of an earlier merge
MarkedText == <<"<<<<<<< Our Local Version", "local line", "=======",
                "other line", ">>>>>>> Remote Change">>
BaseText == <<"base line">>
TheirText(p) == <<"line of " \o Basename(p)>>

Artifacts == {ArtifactA, ArtifactB, ArtifactPng, ArtifactNoExt, ArtifactOrphan}

\* the file trees the model starts from:
\*   flat    one artifact, its temp, two snapshots in the versions folder
\*   nested  one artifact, the older snapshot in a subfolder of the versions folder
\*   none    one artifact, no versions folder
\*   empty   one artifact, a versions folder without snapshots
\*   mixed   artifacts that are refused or skipped beside one that is merged
\*   marked  one artifact, the original holds conflict markers
Trees == {"flat", "nested", "none", "empty", "mixed", "marked"}

LiveFiles(t) ==
    CASE t = "flat"  -> {Original, ArtifactA, TempA}
      [] t = "mixed" -> {Original, ArtifactA, ArtifactPng, ArtifactNoExt, ArtifactOrphan}
      [] OTHER       -> {Original, ArtifactA}

VersionFiles(t) ==
    CASE t = "none"   -> {}
      [] t = "empty"  -> {VersionsTemp}
      [] t = "nested" -> {Join(VersionsFolder, SnapshotNew),
                          Join(Join(VersionsFolder, "sub"), SnapshotOld)}
      [] OTHER        -> {VersionsTemp,
                          Join(VersionsFolder, SnapshotOld),
                          Join(VersionsFolder, SnapshotNew)}

\* the files Syncthing can drop while the program runs: an artifact, and
\* the temp file it writes while it transfers one
Arrivals(t) == IF t = "flat" THEN {ArtifactB, TempA} ELSE {}

InitialFiles(t) ==
    [f \in LiveFiles(t) \cup VersionFiles(t) |->
        IF f = Original THEN (IF t = "marked" THEN MarkedText ELSE LocalText)
        ELSE IF f \in Artifacts THEN TheirText(f)
        ELSE IF f \in {TempA, VersionsTemp} THEN <<>>
        ELSE BaseText]

InitialDirs(t) ==
    {"/r", WatchDir, "/r/.stversions"}
        \cup (IF t = "none" THEN {} ELSE {VersionsFolder})
        \cup (IF t = "nested" THEN {Join(VersionsFolder, "sub")} ELSE {})

(***************************************************************************)
(* Tables of the string functions over the paths of the model.  They hold  *)
(* the values of the operators above and only save evaluating them again   *)
(* in every state.  KnownPaths holds every path the model can form.        *)
(***************************************************************************)
KnownDirs ==
    {"/r", WatchDir, "/r/.stversions", VersionsFolder, Join(VersionsFolder, "sub"),
     "/r/Logs"}

KnownPaths ==
    UNION {VersionFiles(t) : t \in Trees}
        \cup Artifacts \cup {Original, TempA, MergeLogPath}
        \cup {"/r/w/~syncthing~" \o Basename(a) \o ".tmp" : a \in Artifacts}
        \cup {"/r/w/.syncthing." \o Basename(a) \o ".tmp" : a \in Artifacts}
        \cup {Original \o "." \o ToString(t) \o ".bak" : t \in 1..MaxTime}
        \cup KnownDirs

KnownNames == {Basename(p) : p \in KnownPaths}

BasenameTable == [p \in KnownPaths |-> Basename(p)]
DirnameTable == [p \in KnownPaths |-> Dirname(p)]
ConflictMatchTable == [n \in KnownNames |-> ConflictMatch(n)]
TempNames == {n \in KnownNames : IsSyncthingTemp(n)}
ConflictLikeNames == {n \in KnownNames : LooksLikeConflict(n)}
IgnoredPaths == {p \in KnownPaths : WatcherIgnores(p)}
LessPairs == UNION {{<<a, b>> : b \in {c \in KnownPaths : StrLess(a, c)}} : a \in KnownPaths}

PathBasename(p) == BasenameTable[p]
PathDirname(p) == DirnameTable[p]
NameMatch(n) == ConflictMatchTable[n]
NameIsTemp(n) == n \in TempNames
NameLooksLikeConflict(n) == n \in ConflictLikeNames
PathIgnored(p) == p \in IgnoredPaths
PathLess(a, b) == <<a, b>> \in LessPairs

(***************************************************************************)
(* State                                                                   *)
(***************************************************************************)
VARIABLES
    cfg,              \* CONFIG: dryRun, useUnionMerge, backupBeforeMerge,
                      \*   mergeLogPath, watchPath
    files,            \* the regular files: path -> content (a sequence of lines)
    dirs,             \* the directories
    processingFiles,  \* the Set of line 35
    inflight,         \* the suspended handleFileEvent calls (a bag of records)
    phase,            \* "ghosts", "startup", "scan", "watch" or "exited"
    scanTodo,         \* startupScan: the conflicts not yet handed to the pipeline
    spawned,          \* history: every spawnSync of the merge tool, in order
    last,             \* history: the operation of the last step and its console output
    tree,             \* the file tree the run started from (one of Trees)
    liveStarted,      \* number of events the watcher has reported
    extChanges,       \* number of changes made by other programs
    faults,           \* number of operations that have failed
    run               \* number of times the program has been started

vars == <<cfg, files, dirs, processingFiles, inflight, phase, scanTodo,
          spawned, last, tree, liveStarted, extChanges, faults, run>>

\* fs.existsSync
Exists(p) == p \in DOMAIN files \/ p \in dirs

\* fs.lstatSync(p).isFile(), false when lstatSync throws
IsFile(p) == p \in DOMAIN files

(***************************************************************************)
(* getFilesRecursive (lines 52-82)                                         *)
(***************************************************************************)
\* line 66: a directory the walker does not enter
SkippedDirectory(file) ==
    (StartsWith(file, ".") /\ file # VersionsDirName) \/ file = "node_modules"

\* lines 72-75: a file the walker reports
ListedFile(file) ==
    LET isHidden == StartsWith(file, ".") \/ StartsWith(file, "~")
    IN  ~isHidden \/ IsSyncthingTemp(file)

\* the directories strictly between dirPath and the file f below it
DirectoriesBetween(dirPath, f) ==
    {SubSeq(f, 1, i - 1) : i \in {j \in SlashPositions(f) : j > Len(dirPath) + 1}}

\* dirPath's walk reaches the file f (given that both exist)
Reaches(dirPath, f) ==
    /\ StartsWith(f, dirPath \o "/")
    /\ \A d \in DirectoriesBetween(dirPath, f) : ~SkippedDirectory(Basename(d))
    /\ ListedFile(Basename(f))

ReachTable == [d \in KnownDirs |-> {f \in KnownPaths : Reaches(d, f)}]

Reached(dirPath, f) == f \in ReachTable[dirPath]

\* The paths pushed by the walk of dirPath.  readdirSync fixes no order, so
\* the result is a set and every consumer that depends on the order takes
\* any.
GetFilesRecursive(dirPath) ==
    IF ~Exists(dirPath) THEN {} ELSE {f \in DOMAIN files : Reached(dirPath, f)}

\* Array.prototype.sort() on distinct strings: the string at index i has
\* i - 1 strings before it
SortStrings(S) ==
    [i \in 1..Cardinality(S) |->
        CHOOSE x \in S : Cardinality({y \in S : PathLess(y, x)}) = i - 1] \o <<>>

\* Array.prototype.reverse()
Reverse(sq) == [i \in 1..Len(sq) |-> sq[Len(sq) + 1 - i]] \o <<>>

(***************************************************************************)
(* Console and audit log                                                   *)
(***************************************************************************)
\* log(level, message), lines 39-42, without the timestamp
Line(level, message) == [level |-> level, message |-> message]

MergeLogHeader == "# Syncthing Merge Log"

\* formatMergeLogEntry, lines 99-108 (the fields, without the timestamp)
FormatMergeLogEntry(originalFile, conflictFile, baseFile, status, deviceId) ==
    [status   |-> status,
     file     |-> originalFile,
     conflict |-> conflictFile,
     device   |-> IF deviceId # "" THEN " (Device: " \o deviceId \o ")" ELSE "",
     base     |-> baseFile]

\* the file operations of appendMergeLog that can throw (lines 89, 91, 93)
LogFaults == {"mkdirSync", "writeFileSync", "appendFileSync"}

\* those of them that are called in the tree fs with the directories ds:
\* mkdirSync and writeFileSync only when the directory or the file is missing
LogFaultsIn(fs, ds) ==
    IF cfg.mergeLogPath = "" THEN {}
    ELSE {"appendFileSync"}
            \cup (IF PathDirname(Resolve(cfg.mergeLogPath)) \notin ds
                  THEN {"mkdirSync"} ELSE {})
            \cup (IF Resolve(cfg.mergeLogPath) \notin DOMAIN fs
                  THEN {"writeFileSync"} ELSE {})

\* a logger that writes the file anew at every call
AppendMergeLog_Rewrites(fs, entry, ioError) ==
    IF cfg.mergeLogPath = "" \/ ioError \in LogFaults THEN fs
    ELSE [f \in DOMAIN fs \cup {Resolve(cfg.mergeLogPath)} |->
             IF f # Resolve(cfg.mergeLogPath) THEN fs[f]
             ELSE <<MergeLogHeader, entry>>]

\* appendMergeLog, lines 84-97: the files after the call.  ioError names
\* the file operation that threw ("none" when none did); the function
\* catches the error, and what the earlier operations wrote stays.
AppendMergeLog(fs, entry, ioError) ==
    IF cfg.mergeLogPath = "" \/ ioError \in {"mkdirSync", "writeFileSync"} THEN fs
    ELSE LET logPath == Resolve(cfg.mergeLogPath)
             old == IF logPath \in DOMAIN fs THEN fs[logPath] ELSE <<MergeLogHeader>>
         IN  [f \in DOMAIN fs \cup {logPath} |->
                 IF f # logPath THEN fs[f]
                 ELSE IF ioError = "appendFileSync" THEN old
                 ELSE Append(old, entry)]

AppendMergeLogDirs(ioError) ==
    IF cfg.mergeLogPath = "" \/ ioError = "mkdirSync" THEN dirs
    ELSE dirs \cup {PathDirname(Resolve(cfg.mergeLogPath))}

AppendMergeLogConsole(ioError) ==
    IF cfg.mergeLogPath # "" /\ ioError \in LogFaults
    THEN <<Line("WARN", "Merge log failed")>>
    ELSE <<>>

(***************************************************************************)
(* The merge tool (git merge-file) and mergeFiles (lines 175-193)          *)
(***************************************************************************)
RECURSIVE JoinWith(_, _)
\* Array.prototype.join
JoinWith(arr, sep) ==
    IF arr = <<>> THEN ""
    ELSE IF Len(arr) = 1 THEN arr[1]
    ELSE arr[1] \o sep \o JoinWith(Tail(arr), sep)

\* lines 176-185
MergeArgs(original, base, conflict, deviceId) ==
    LET flags  == IF cfg.useUnionMerge THEN <<"--union">> ELSE <<>>
        labels == <<"-L", "Our Local Version",
                    "-L", "Base (Historical)",
                    "-L", "Remote Change (Device: "
                            \o (IF deviceId # "" THEN deviceId ELSE "Unknown") \o ")">>
    IN  <<"merge-file">> \o flags \o labels \o <<original, base, conflict>>

\* line 187
MergeLine(original, base, conflict, deviceId) ==
    Line("MERGE", GitBinary \o " " \o JoinWith(MergeArgs(original, base, conflict, deviceId), " "))

\* What spawnSync can report of git merge-file: a launch error, or an exit
\* status: 0 (clean), the number of conflicts (1; markers strategy only),
\* 255 (the tool's own error), or none (<<>>: ended by a signal).
SpawnResults ==
    {[error |-> TRUE, status |-> <<>>]}
        \cup {[error |-> FALSE, status |-> st] :
                st \in {<<>>, <<0>>, <<255>>}
                         \cup (IF cfg.useUnionMerge THEN {} ELSE {<<1>>})}

\* the tool reported a merge: clean, or conflicts marked
ReportsMerge(result) == ~result.error /\ result.status \in {<<0>>, <<1>>}

\* what the tool leaves in the current file
ToolWrites(result, ours, theirs) ==
    IF ~ReportsMerge(result) THEN ours
    ELSE IF result.status = <<0>> THEN ours \o theirs
    ELSE <<"<<<<<<< Our Local Version">> \o ours \o <<"=======">>
             \o theirs \o <<">>>>>>> Remote Change">>

\* result.status || 0, line 192
StatusOrZero(result) == IF result.status = <<>> THEN 0 ELSE result.status[1]

\* originalContent.includes('<<<<<<<'), line 230
HasMarkers(content) ==
    \E n \in 1..Len(content) :
        \E i \in 1..Len(content[n]) : LitAt(content[n], i, "<<<<<<<")

(***************************************************************************)
(* handleFileEvent (lines 195-287)                                         *)
(***************************************************************************)
Execution(path, pc, isStartupScan, exitCode, base, rel) ==
    [path |-> path, pc |-> pc, startup |-> isStartupScan,
     exitCode |-> exitCode, base |-> base, rel |-> rel]

Executions == BagToSet(inflight)
PathsInFlight == {e.path : e \in Executions}
CountInFlight(p) ==
    LET held == {e \in Executions : e.path = p}
    IN  IF held = {} THEN 0
        ELSE LET Sum[S \in SUBSET held] ==
                     IF S = {} THEN 0
                     ELSE LET x == CHOOSE y \in S : TRUE
                          IN  CopiesIn(x, inflight) + Sum[S \ {x}]
             IN  Sum[held]

\* a guard that never finds the path held
GuardHeld_Never(absConflictPath) == FALSE

\* line 197
GuardHeld(absConflictPath) == absConflictPath \in processingFiles

\* an allow-list check that lets every extension through
ExtensionAllowed_Any(extension) == TRUE

\* line 211
ExtensionAllowed(extension) == Includes(AllowedExtensions, ToLowerCase(extension))

\* lines 197-211: what the synchronous head of handleFileEvent decides
EntryVerdict(absConflictPath) ==
    IF GuardHeld(absConflictPath) THEN "busy"
    ELSE IF ~IsFile(absConflictPath) THEN "notfile"
    ELSE LET fileName == PathBasename(absConflictPath)
             match == NameMatch(fileName)
         IN  IF ~match.matched \/ EndsWith(fileName, ".tmp") THEN "nomatch"
             ELSE IF ~ExtensionAllowed(match.extension) THEN "disallowed"
             ELSE "accepted"

\* lines 196-217: the call up to its first await.  An accepted path is added
\* to processingFiles and the call is suspended in the settle wait.
HandleFileEvent(filePath, isStartupScan, op) ==
    LET absConflictPath == Resolve(filePath)
        verdict == EntryVerdict(absConflictPath)
    IN  /\ last' = [op |-> op, path |-> absConflictPath, outcome |-> verdict,
                    console |-> <<>>]
        /\ IF verdict = "accepted"
           THEN /\ processingFiles' = processingFiles \cup {absConflictPath}
                /\ inflight' = inflight (+) SetToBag(
                       {Execution(absConflictPath, "settle", isStartupScan, 0, "", "")})
           ELSE UNCHANGED <<processingFiles, inflight>>
        /\ UNCHANGED <<cfg, tree, run, files, dirs, spawned, faults>>

\* a return that empties the set
Release_All(absConflictPath) == {}

\* a return that leaves the path in the set
Release_Forgotten(absConflictPath) == processingFiles

\* line 285, in the finally block
Release(absConflictPath) == processingFiles \ {absConflictPath}

WriteFile(fs, path, content) ==
    [f \in DOMAIN fs \cup {path} |-> IF f = path THEN content ELSE fs[f]]

RemoveFile(fs, path) == [f \in DOMAIN fs \ {path} |-> fs[f]]

\* line 220
OriginalFileName(baseName, extension) ==
    IF extension # "" THEN baseName \o "." \o extension ELSE baseName

\* line 221
OriginalFilePath(absConflictPath, match) ==
    Join(Dirname(absConflictPath), OriginalFileName(match.baseName, match.extension))

\* line 236
VersionsFolderOf(absRoot, relativeOriginal) ==
    Join(Join(absRoot, VersionsDirName), Dirname(relativeOriginal))

PathsRecord(fileName, match, originalFilePath, relativeOriginal, absRoot) ==
    [fileName |-> fileName,
     baseName |-> match.baseName,
     extension |-> match.extension,
     deviceId |-> match.deviceId,
     originalFileName |-> OriginalFileName(match.baseName, match.extension),
     originalFilePath |-> originalFilePath,
     relativeOriginal |-> relativeOriginal,
     versionsFolder |-> VersionsFolderOf(absRoot, relativeOriginal)]

PathsFrom(absConflictPath, fileName, match, absRoot) ==
    PathsRecord(fileName, match, OriginalFilePath(absConflictPath, match),
                Relative(absRoot, OriginalFilePath(absConflictPath, match)), absRoot)

\* lines 203-210, 214, 220-221, 235-236: the names and paths the call
\* derives from the path of the artifact
PipelinePaths(absConflictPath) ==
    PathsFrom(absConflictPath, Basename(absConflictPath),
              ConflictMatch(Basename(absConflictPath)), Resolve(SyncRoot))

PipelinePathsTable ==
    [a \in {x \in Artifacts : ConflictMatch(Basename(x)).matched} |-> PipelinePaths(a)]

PathsOf(absConflictPath) == PipelinePathsTable[absConflictPath]

\* lines 243-250: backupRegex.test(path.basename(f))
IsSnapshotName(baseName, extension, f) == BackupRegexTest(baseName, extension, Basename(f))

SnapshotsFor(paths) ==
    {f \in KnownPaths : IsSnapshotName(paths.baseName, paths.extension, f)}

SnapshotTable == [a \in DOMAIN PipelinePathsTable |-> SnapshotsFor(PipelinePathsTable[a])]

SnapshotOf(absConflictPath, f) == f \in SnapshotTable[absConflictPath]

\* the order in which the candidates are put, lines 249-251:
\* .sort().reverse() of the full paths
OrderCandidates(found) == Reverse(SortStrings(found))

\* lines 249-251: the snapshots found for the artifact, the first one is
\* taken as latestBackup
BackupCandidates(absConflictPath) ==
    OrderCandidates({f \in GetFilesRecursive(PathsOf(absConflictPath).versionsFolder) :
                        SnapshotOf(absConflictPath, f)})

\* line 271
StatusText(mergeExitCode) ==
    IF mergeExitCode = 0 THEN "Clean Merge"
    ELSE "Conflicts Marked (" \o ToString(mergeExitCode) \o ")"

\* the file operations of the stretch that can throw: readFileSync (229),
\* copyFileSync (261), unlinkSync (267), and those of appendMergeLog (89-93)
IoFaults == {"none", "read", "copy", "unlink"} \cup LogFaults

NoSpawn == [error |-> FALSE, status |-> <<0>>]

ChecksWith(absConflictPath, paths) ==
    [paths |-> paths,
     artifactExists |-> Exists(absConflictPath),
     originalExists |-> Exists(paths.originalFilePath),
     readable |-> IsFile(paths.originalFilePath),
     marked |-> IsFile(paths.originalFilePath)
                   /\ HasMarkers(files[paths.originalFilePath]),
     versionsExists |-> Exists(paths.versionsFolder),
     backupCandidates |-> BackupCandidates(absConflictPath)]

\* lines 218-256: what the checks of the call find in the file tree
Checks(absConflictPath) == ChecksWith(absConflictPath, PathsOf(absConflictPath))

\* a guard that never refuses
\* the guard with the option read the wrong way round
NestingRefused_UnionOnly(marked) == marked /\ cfg.useUnionMerge

NestingRefused_Off(marked) == FALSE

\* line 230: the anti-nesting guard
NestingRefused(marked) == marked /\ ~cfg.useUnionMerge

\* the checks let the call through to the backup and the merge
ReachesMerge(c) ==
    /\ c.artifactExists /\ c.originalExists /\ c.readable
    /\ ~NestingRefused(c.marked)
    /\ c.versionsExists
    /\ Len(c.backupCandidates) > 0

\* the failures the stretch can meet, given what its checks find
FaultsFor(c) ==
    IF faults >= MaxFaults THEN {"none"}
    ELSE {"none"}
        \cup (IF c.artifactExists /\ c.originalExists THEN {"read"} ELSE {})
        \cup (IF ReachesMerge(c) /\ cfg.backupBeforeMerge /\ ~cfg.dryRun
              THEN {"copy"} ELSE {})
        \cup (IF ReachesMerge(c) /\ ~cfg.dryRun THEN {"unlink"} ELSE {})
        \cup (IF ReachesMerge(c) /\ cfg.dryRun THEN LogFaultsIn(files, dirs) ELSE {})

\* what spawnSync can report in the stretch: it is called only when nothing
\* threw before line 190
ResultsFor(c, fault) ==
    IF ReachesMerge(c) /\ ~cfg.dryRun /\ fault \in {"none", "unlink"}
    THEN {r \in SpawnResults :
            ~ReportsMerge(r) => (fault = "none" /\ faults < MaxFaults)}
    ELSE {NoSpawn}

\* the readings of the clock at line 261
TimesFor(c, fault) ==
    IF ReachesMerge(c) /\ cfg.backupBeforeMerge /\ ~cfg.dryRun
          /\ fault \in {"none", "unlink"}
    THEN 1..MaxTime ELSE {1}

\* line 266: the artifact is deleted after mergeFiles has returned
DeletesArtifact(mergeExitCode) == ~cfg.dryRun

\* line 261
BackupPath(originalFilePath, now) == originalFilePath \o "." \o ToString(now) \o ".bak"

\* no copy is made before the merge
BackupCopy_None(fs, originalFilePath, now) == fs

\* lines 260-262
BackupCopy(fs, originalFilePath, now) ==
    IF cfg.backupBeforeMerge /\ ~cfg.dryRun
    THEN WriteFile(fs, BackupPath(originalFilePath, now), fs[originalFilePath])
    ELSE fs

\* line 190: the file tree after the merge tool has run
ToolRun(fs, original, conflict, result) ==
    WriteFile(fs, original, ToolWrites(result, fs[original], fs[conflict]))

\* the return value of mergeFiles, lines 188 and 192
MergeExitCode(result) == IF cfg.dryRun THEN -1 ELSE StatusOrZero(result)

\* the record kept of a spawnSync of line 190
SpawnCall(fs, original, base, conflict, result) ==
    [original |-> original, base |-> base, conflict |-> conflict,
     result |-> result, before |-> fs[original]]

\* what a stretch of the call did:
\*   files, dirs  the file tree it leaves
\*   console      the lines it logged
\*   outcome      how it ended
\*   spawn        the spawnSync it made, if any
\*   next         the suspended call it leaves, if any
Return(outcome, fs, ds, console, spawn, next) ==
    [files |-> fs, dirs |-> ds, console |-> console, outcome |-> outcome,
     spawn |-> spawn, next |-> next]

\* lines 282-283
Failed(fileName, fs, console, spawn) ==
    Return("failed", fs, dirs, console \o <<Line("ERROR", "Failed " \o fileName)>>,
           spawn, <<>>)

\* lines 271-280 in dry-run, where line 268 awaits nothing
DryRunTail(paths, latestBackup, mergeLine, logError) ==
    Return("dry-run",
           AppendMergeLog(files,
                          FormatMergeLogEntry(paths.relativeOriginal, paths.fileName,
                                              PathBasename(latestBackup),
                                              StatusText(MergeExitCode(NoSpawn)),
                                              paths.deviceId),
                          logError),
           AppendMergeLogDirs(logError),
           <<mergeLine,
             Line("SUCCESS", "Resolved: " \o paths.relativeOriginal \o " ("
                                \o StatusText(MergeExitCode(NoSpawn)) \o ")")>>
               \o AppendMergeLogConsole(logError),
           <<>>, <<>>)

\* lines 264-268 with dry-run off: mergeFiles on the tree fs1 left by the
\* backup copy, the deletion of the artifact, and the call of
\* cleanupSyncthingTemp up to its wait
MergeAndDelete(e, paths, latestBackup, mergeLine, fault, result, fs1) ==
    IF result.error
    THEN Failed(paths.fileName, fs1, <<mergeLine>>,
                <<SpawnCall(fs1, paths.originalFilePath, latestBackup, e.path, result)>>)
    ELSE IF fault = "unlink"
    THEN Failed(paths.fileName,
                ToolRun(fs1, paths.originalFilePath, e.path, result), <<mergeLine>>,
                <<SpawnCall(fs1, paths.originalFilePath, latestBackup, e.path, result)>>)
    ELSE Return("merged",
                IF DeletesArtifact(MergeExitCode(result))
                THEN RemoveFile(ToolRun(fs1, paths.originalFilePath, e.path, result),
                                e.path)
                ELSE ToolRun(fs1, paths.originalFilePath, e.path, result),
                dirs, <<mergeLine>>,
                <<SpawnCall(fs1, paths.originalFilePath, latestBackup, e.path, result)>>,
                <<Execution(e.path, "cleanup", e.startup, MergeExitCode(result),
                            latestBackup, paths.relativeOriginal)>>)

\* lines 258-269
BackupAndMerge(e, paths, latestBackup, mergeLine, fault, result, now) ==
    IF fault = "copy" /\ cfg.backupBeforeMerge /\ ~cfg.dryRun
    THEN Failed(paths.fileName, files, <<>>, <<>>)
    ELSE IF cfg.dryRun
    THEN DryRunTail(paths, latestBackup, mergeLine,
                    IF fault \in LogFaults THEN fault ELSE "none")
    ELSE MergeAndDelete(e, paths, latestBackup, mergeLine, fault, result,
                        BackupCopy(files, paths.originalFilePath, now))

\* a return that reports the missing artifact
Vanished_Logged ==
    Return("vanished", files, dirs, <<Line("SKIP", "Conflict file is gone")>>, <<>>, <<>>)

\* line 218: the artifact is gone, the call returns
Vanished == Return("vanished", files, dirs, <<>>, <<>>, <<>>)

\* the checks with the backup copy made before them
AfterSettleChecks_BackupFirst(e, c, paths, fault, result, now) ==
    IF ~ReachesMerge(c)
    THEN Return("skip-versions",
                IF c.originalExists /\ c.readable
                THEN BackupCopy(files, paths.originalFilePath, now) ELSE files,
                dirs, <<>>, <<>>, <<>>)
    ELSE BackupAndMerge(e, paths, c.backupCandidates[1],
                        MergeLine(paths.originalFilePath, c.backupCandidates[1], e.path,
                                  paths.deviceId),
                        fault, result, now)

\* lines 218-256: the checks, each with its return
AfterSettleChecks(e, c, paths, fault, result, now) ==
    IF ~c.artifactExists
    THEN Vanished
    ELSE IF ~c.originalExists
    THEN Return("skip-original", files, dirs,
                <<Line("SKIP", "Original file not found for " \o paths.fileName)>>,
                <<>>, <<>>)
    ELSE IF fault = "read" \/ ~c.readable
    THEN Failed(paths.fileName, files, <<>>, <<>>)
    ELSE IF NestingRefused(c.marked)
    THEN Return("skip-markers", files, dirs,
                <<Line("WARN", "Skipping: " \o paths.originalFileName
                          \o " already has markers. Resolve manually.")>>, <<>>, <<>>)
    ELSE IF ~c.versionsExists
    THEN Return("skip-versions", files, dirs,
                <<Line("SKIP", "No .stversions for " \o paths.relativeOriginal)>>,
                <<>>, <<>>)
    ELSE IF Len(c.backupCandidates) = 0
    THEN Return("skip-snapshot", files, dirs,
                <<Line("SKIP", "No versions for " \o paths.relativeOriginal)>>,
                <<>>, <<>>)
    ELSE BackupAndMerge(e, paths, c.backupCandidates[1],
                        MergeLine(paths.originalFilePath, c.backupCandidates[1], e.path,
                                  paths.deviceId),
                        fault, result, now)

\* lines 218-269 (and 271-280 in dry-run): the stretch from the end of the
\* settle wait to the next await or the return.  c is what the checks find,
\* fault the file operation that throws, result what spawnSync reports, now
\* the clock's reading.
AfterSettleResult(e, c, fault, result, now) ==
    AfterSettleChecks(e, c, c.paths, fault, result, now)

\* the state a stretch r of the call e leaves; a call that returns goes
\* through the finally block (line 285)
Resume(e, r, op) ==
    /\ files' = r.files
    /\ dirs' = r.dirs
    /\ spawned' = spawned \o r.spawn
    /\ last' = [op |-> op, path |-> e.path, outcome |-> r.outcome,
                console |-> r.console]
    /\ IF r.next = <<>>
       THEN /\ inflight' = inflight (-) SetToBag({e})
            /\ processingFiles' = Release(e.path)
       ELSE /\ inflight' = (inflight (-) SetToBag({e})) (+) SetToBag({r.next[1]})
            /\ UNCHANGED processingFiles

\* The continuation of a call after the settle wait (line 217)
AfterSettle(e) ==
    /\ phase # "exited"
    /\ e \in Executions
    /\ e.pc = "settle"
    /\ \E c \in {Checks(e.path)} :
       \E fault \in FaultsFor(c) :
       \E result \in ResultsFor(c, fault) :
       \E now \in TimesFor(c, fault) :
       \E r \in {AfterSettleResult(e, c, fault, result, now)} :
           /\ Resume(e, r, "settled")
           /\ faults' = IF fault # "none" \/ ~ReportsMerge(result)
                        THEN faults + 1 ELSE faults
    /\ UNCHANGED <<cfg, tree, run, phase, scanTodo, liveStarted, extChanges>>

(***************************************************************************)
(* cleanupSyncthingTemp (lines 120-143) and the end of handleFileEvent     *)
(***************************************************************************)
\* the variations, and the temp file of another artifact as well
TempVariations_AnyTemp(filePath) ==
    <<Join(PathDirname(filePath), "~syncthing~" \o PathBasename(filePath) \o ".tmp"),
      Join(PathDirname(filePath), ".syncthing." \o PathBasename(filePath) \o ".tmp"),
      TempA>>

\* lines 125-128
TempVariations(filePath) ==
    LET dir == PathDirname(filePath)
        fileName == PathBasename(filePath)
    IN  <<Join(dir, "~syncthing~" \o fileName \o ".tmp"),
          Join(dir, ".syncthing." \o fileName \o ".tmp")>>

RECURSIVE RemoveTemps(_, _, _)
\* lines 132-142: the variations in order; unlinkSync throws for the locked
\* ones, which is caught and logged
RemoveTemps(fs, names, locked) ==
    IF names = <<>> THEN [files |-> fs, console |-> <<>>]
    ELSE LET tempPath == Head(names)
             here == IF tempPath \notin DOMAIN fs /\ tempPath \notin dirs
                     THEN [files |-> fs, console |-> <<>>]
                     ELSE IF tempPath \in locked \/ tempPath \in dirs
                     THEN [files |-> fs,
                           console |-> <<Line("WARN", "Locked: " \o PathBasename(tempPath)
                                                 \o " (Syncthing still busy)")>>]
                     ELSE [files |-> IF cfg.dryRun THEN fs ELSE RemoveFile(fs, tempPath),
                           console |-> <<Line("CLEAN", "Removed: " \o PathBasename(tempPath))>>]
             rest == RemoveTemps(here.files, Tail(names), locked)
         IN  [files |-> rest.files, console |-> here.console \o rest.console]

\* lines 132-142, then lines 271-280: what the stretch after the 500 ms wait
\* does, given the file tree and console left by the removal of the temps
CleanupTail(e, cleaned, status, logError) ==
    Return("success",
           AppendMergeLog(cleaned.files,
                          FormatMergeLogEntry(e.rel, PathBasename(e.path),
                                              PathBasename(e.base), status,
                                              NameMatch(PathBasename(e.path)).deviceId),
                          logError),
           AppendMergeLogDirs(logError),
           cleaned.console
               \o <<Line("SUCCESS", "Resolved: " \o e.rel \o " (" \o status \o ")")>>
               \o AppendMergeLogConsole(logError),
           <<>>, <<>>)

\* the temps of the artifact that exist, whose unlinkSync may throw
Lockable(filePath) == {t \in DOMAIN files : Includes(TempVariations(filePath), t)}

\* The continuation after the 500 ms wait of cleanupSyncthingTemp (line 130):
\* lines 132-142, then lines 271-280 and the finally block.
AfterCleanupWait(e) ==
    /\ phase # "exited"
    /\ e \in Executions
    /\ e.pc = "cleanup"
    /\ \E locked \in SUBSET Lockable(e.path),
          logError \in {"none"} \cup LogFaultsIn(files, dirs) :
         /\ Cardinality(locked) + (IF logError # "none" THEN 1 ELSE 0)
              <= MaxFaults - faults
         /\ faults' = faults + Cardinality(locked)
                             + (IF logError # "none" THEN 1 ELSE 0)
         /\ \E cleaned \in {RemoveTemps(files, TempVariations(e.path), locked)} :
            \E r \in {CleanupTail(e, cleaned, StatusText(e.exitCode), logError)} :
                Resume(e, r, "cleaned")
    /\ UNCHANGED <<cfg, tree, run, phase, scanTodo, liveStarted, extChanges>>

(***************************************************************************)
(* Startup (lines 304-323)                                                 *)
(***************************************************************************)
\* lines 151-155
Ghosts ==
    {f \in GetFilesRecursive(Resolve(cfg.watchPath)) : NameIsTemp(PathBasename(f))}

RECURSIVE PurgeLines(_, _)
PurgeLines(names, locked) ==
    IF names = <<>> THEN <<>>
    ELSE <<IF Head(names) \in locked
           THEN Line("WARN", "Could not purge: " \o PathBasename(Head(names)))
           ELSE Line("GHOST", "Purged: " \o PathBasename(Head(names)))>>
         \o PurgeLines(Tail(names), locked)

\* cleanupPreviousGhosts, lines 149-170.  unlinkSync throws for the locked
\* ghosts.  (The lines are listed in sorted order.)
CleanupPreviousGhosts ==
    /\ phase = "ghosts"
    /\ \E locked \in SUBSET (IF cfg.dryRun THEN {} ELSE Ghosts) :
         /\ Cardinality(locked) <= MaxFaults - faults
         /\ faults' = faults + Cardinality(locked)
         /\ files' = IF cfg.dryRun THEN files
                     ELSE [f \in DOMAIN files \ (Ghosts \ locked) |-> files[f]]
         /\ last' = [op |-> "ghosts", path |-> Resolve(cfg.watchPath), outcome |-> "",
                     console |-> <<Line("GHOST", "Searching for ghost temp files...")>>
                        \o (IF Ghosts = {} THEN <<Line("GHOST", "No ghost files found.")>>
                            ELSE PurgeLines(SortStrings(Ghosts), locked))]
    /\ phase' = "startup"
    /\ UNCHANGED <<cfg, tree, run, dirs, processingFiles, inflight, scanTodo, spawned,
                   liveStarted, extChanges>>

\* a scan that only keeps the names the pipeline would accept
Conflicts_AllowedOnly ==
    {f \in GetFilesRecursive(Resolve(cfg.watchPath)) :
        /\ NameLooksLikeConflict(PathBasename(f))
        /\ ~EndsWith(PathBasename(f), ".tmp")
        /\ Includes(AllowedExtensions, ToLowerCase(NameMatch(PathBasename(f)).extension))}

\* lines 291-297
Conflicts ==
    {f \in GetFilesRecursive(Resolve(cfg.watchPath)) :
        NameLooksLikeConflict(PathBasename(f)) /\ ~EndsWith(PathBasename(f), ".tmp")}

\* startupScan up to its loop, lines 289-297
StartupScan ==
    /\ phase = "startup"
    /\ scanTodo' = Conflicts
    /\ phase' = "scan"
    /\ last' = [op |-> "scan", path |-> Resolve(cfg.watchPath), outcome |-> "",
                console |-> <<Line("SCAN", "Scanning for existing conflicts...")>>]
    /\ UNCHANGED <<cfg, tree, run, files, dirs, processingFiles, inflight, spawned,
                   liveStarted, extChanges, faults>>

\* a loop that does not wait for the call it made
StartupInFlight_Unawaited == FALSE

StartupInFlight == \E e \in Executions : e.startup

\* one turn of the loop of line 299: the next conflict is handed to the
\* pipeline once the call made for the one before has returned
ScanNext ==
    /\ phase = "scan"
    /\ ~StartupInFlight
    /\ \E c \in scanTodo :
         /\ scanTodo' = scanTodo \ {c}
         /\ HandleFileEvent(c, TRUE, "scan-call")
    /\ UNCHANGED <<phase, liveStarted, extChanges>>

\* lines 307-322: the scan has ended, the watcher is created and the SIGINT
\* handler installed
StartWatcher ==
    /\ phase = "scan"
    /\ ~StartupInFlight
    /\ scanTodo = {}
    /\ phase' = "watch"
    /\ last' = [op |-> "watching", path |-> Resolve(cfg.watchPath), outcome |-> "",
                console |-> <<Line("INFO", "Watcher active.")>>]
    /\ UNCHANGED <<cfg, tree, run, files, dirs, processingFiles, inflight, scanTodo, spawned,
                   liveStarted, extChanges, faults>>

\* the paths the watcher can report: below the watch path and not ignored
EventPaths ==
    {p \in LiveFiles(tree) \cup Arrivals(tree) :
        StartsWith(p, Resolve(cfg.watchPath) \o "/") /\ ~PathIgnored(p)}

\* lines 316-317: an add or change event
LiveEvent ==
    /\ phase = "watch"
    /\ liveStarted < MaxLive
    /\ liveStarted' = liveStarted + 1
    /\ \E p \in EventPaths : HandleFileEvent(p, FALSE, "event")
    /\ UNCHANGED <<phase, scanTodo, extChanges>>

\* line 322: SIGINT closes the watcher and ends the process; the suspended
\* calls are never resumed
Shutdown ==
    /\ phase = "watch"
    /\ phase' = "exited"
    /\ last' = [op |-> "exit", path |-> "", outcome |-> "", console |-> <<>>]
    /\ UNCHANGED <<cfg, tree, run, files, dirs, processingFiles, inflight, scanTodo, spawned,
                   liveStarted, extChanges, faults>>

(***************************************************************************)
(* The environment                                                         *)
(***************************************************************************)
\* Syncthing drops a conflict artifact or starts to write a temp file
ExternalCreate ==
    /\ phase # "exited"
    /\ extChanges < MaxExternal
    /\ \E p \in Arrivals(tree) \ DOMAIN files :
         /\ files' = WriteFile(files, p, IF p = TempA THEN <<>> ELSE TheirText(p))
         /\ last' = [op |-> "external", path |-> p, outcome |-> "created",
                     console |-> <<>>]
    /\ extChanges' = extChanges + 1
    /\ UNCHANGED <<cfg, tree, run, dirs, processingFiles, inflight, phase, scanTodo, spawned,
                   liveStarted, faults>>

\* another program (Syncthing, the user) deletes a conflict artifact while a
\* call is suspended on it
ExternalDelete ==
    /\ phase # "exited"
    /\ extChanges < MaxExternal
    /\ \E p \in PathsInFlight \cap DOMAIN files :
         /\ files' = RemoveFile(files, p)
         /\ last' = [op |-> "external", path |-> p, outcome |-> "deleted",
                     console |-> <<>>]
    /\ extChanges' = extChanges + 1
    /\ UNCHANGED <<cfg, tree, run, dirs, processingFiles, inflight, phase, scanTodo, spawned,
                   liveStarted, faults>>

(***************************************************************************)
(* Specification                                                           *)
(***************************************************************************)
\* the configurations of the model: every combination of the options for
\* a watched subfolder, and the whole folder watched with the other options
\* at their defaults (lines 24-32)
Configs ==
    {c \in [dryRun : BOOLEAN, useUnionMerge : BOOLEAN, backupBeforeMerge : BOOLEAN,
            mergeLogPath : {"", MergeLogPath}, watchPath : {WatchDir, SyncRoot}] :
        c.watchPath = SyncRoot =>
            ~c.useUnionMerge /\ c.backupBeforeMerge /\ c.mergeLogPath = ""}

\* the process right after verifyGitAvailable (line 304)
Init ==
    /\ cfg \in Configs
    /\ tree \in Trees
    /\ files = InitialFiles(tree)
    /\ dirs = InitialDirs(tree)
    /\ processingFiles = {}
    /\ inflight = EmptyBag
    /\ phase = "ghosts"
    /\ scanTodo = {}
    /\ spawned = <<>>
    /\ last = [op |-> "start", path |-> "", outcome |-> "", console |-> <<>>]
    /\ liveStarted = 0
    /\ extChanges = 0
    /\ faults = 0
    /\ run = 1

Next ==
    \/ CleanupPreviousGhosts
    \/ StartupScan
    \/ ScanNext
    \/ StartWatcher
    \/ LiveEvent
    \/ \E e \in Executions : AfterSettle(e)
    \/ \E e \in Executions : AfterCleanupWait(e)
    \/ Shutdown
    \/ ExternalCreate
    \/ ExternalDelete

Spec == Init /\ [][Next]_vars

(***************************************************************************)
(* The program started again after it has exited (the container restarts   *)
(* it, or the user does): lines 35 and 304 of a new process, over the file *)
(* tree the first one left.                                                *)
(***************************************************************************)
Restart ==
    /\ phase = "exited"
    /\ run < MaxRuns
    /\ run' = run + 1
    /\ phase' = "ghosts"
    /\ processingFiles' = {}
    /\ inflight' = EmptyBag
    /\ scanTodo' = {}
    /\ last' = [op |-> "start", path |-> "", outcome |-> "", console |-> <<>>]
    /\ UNCHANGED <<cfg, tree, files, dirs, spawned, liveStarted, extChanges, faults>>

NextTwoRuns == Next \/ Restart

SpecTwoRuns == Init /\ [][NextTwoRuns]_vars

(***************************************************************************)
(* Fairness: a timer that has been set fires while the process lives       *)
(* (lines 130 and 217), so a suspended call is resumed.                    *)
(***************************************************************************)
Resumed == \E e \in Executions : AfterSettle(e) \/ AfterCleanupWait(e)

FairSpec == Spec /\ WF_vars(Resumed)

(***************************************************************************)
(* Properties                                                              *)
(***************************************************************************)
\* a step that is a call of handleFileEvent by the scan or by the watcher
Invocation == last'.op \in {"event", "scan-call"}

\* a step that leaves the file tree, the merge history, the console, the
\* suspended calls and the guard as they were
NoEffect ==
    /\ files' = files
    /\ dirs' = dirs
    /\ spawned' = spawned
    /\ last'.console = <<>>
    /\ inflight' = inflight
    /\ processingFiles' = processingFiles

\* C1: Mutual exclusion per path.  At most one execution of the pipeline
\* for a path is between guard acquisition and return at any time, and an
\* invocation for a path that another execution holds (in the settle wait
\* or in the wait after the cleanup) changes no file, runs no merge, logs
\* nothing and writes no audit entry.
C1_MutualExclusion ==
    /\ [](\A p \in Artifacts : CountInFlight(p) <= 1)
    /\ [][(Invocation /\ last'.path \in processingFiles) => NoEffect]_vars

\* C1 witness: an event for a path whose execution is suspended in the wait
\* after the cleanup has been refused
C1_Witness ==
    /\ last.op = "event"
    /\ last.outcome = "busy"
    /\ \E e \in Executions : e.path = last.path /\ e.pc = "cleanup"

\* C2: Guard release on every exit path.  Whenever no execution is in
\* flight processingFiles is empty, and from every state in which it holds
\* a path the program comes to a state in which it holds none (every path
\* added has been removed, whatever the outcome of its execution) or the
\* process has exited.
C2_GuardReleased ==
    /\ [](inflight = EmptyBag => processingFiles = {})
    /\ (processingFiles # {}) ~> (processingFiles = {} \/ phase = "exited")

\* C2 witness: an execution has ended in the catch block and its path is no
\* longer in the set
C2_Witness ==
    /\ last.op = "settled"
    /\ last.outcome = "failed"
    /\ last.path \notin processingFiles

\* C3: At-most-once merge.  With dry-run off and no change made by another
\* program, the merge tool is executed at most once for a conflict artifact.
C3_AtMostOnce ==
    (~cfg.dryRun /\ extChanges = 0) =>
        \A i, j \in 1..Len(spawned) :
            (i < j /\ ~spawned[i].result.error /\ ~spawned[j].result.error)
                => spawned[i].conflict # spawned[j].conflict

\* the tool reported a clean merge (exit 0) or a count of marked regions
C4_Succeeded(result) ==
    ~result.error /\ result.status # <<>> /\ result.status[1] \in 0..127

\* C4: The pipeline deletes a conflict artifact only on success.  A step of
\* the program that deletes an artifact is one in which the merge tool was
\* run on that artifact and reported a clean merge or a count of marked
\* regions.
C4_DeletedOnlyOnSuccess ==
    [][\A a \in Artifacts :
         (a \in DOMAIN files /\ a \notin DOMAIN files' /\ last'.op # "external")
            => /\ Len(spawned') = Len(spawned) + 1
               /\ spawned'[Len(spawned')].conflict = a
               /\ C4_Succeeded(spawned'[Len(spawned')].result)]_vars

\* the step resumes a call after the settle wait and reads an original that
\* holds conflict markers
C5_ReadsMarkedOriginal ==
    /\ last'.op = "settled"
    /\ last'.outcome # "failed"
    /\ IsFile(last'.path)
    /\ IsFile(PathsOf(last'.path).originalFilePath)
    /\ HasMarkers(files[PathsOf(last'.path).originalFilePath])

\* C5: Nesting guard.  When the pipeline reads an original that holds
\* conflict markers, under the markers strategy it ends skipped: no merge
\* tool, no backup, no deletion, no audit entry.  Under the union strategy
\* the same content causes no skip.
C5_NestingGuard ==
    [][C5_ReadsMarkedOriginal =>
         IF cfg.useUnionMerge
         THEN last'.outcome # "skip-markers"
         ELSE /\ last'.outcome = "skip-markers"
              /\ files' = files
              /\ dirs' = dirs
              /\ spawned' = spawned]_vars

\* C5 witness: a call has been skipped by the nesting guard
C5_Witness == last.op = "settled" /\ last.outcome = "skip-markers"

\* the paths whose name matches the conflict grammar and whose case-folded
\* extension is not in the allow-list
C6_Disallowed ==
    {p \in KnownPaths :
        /\ NameMatch(PathBasename(p)).matched
        /\ ~Includes(AllowedExtensions,
                     ToLowerCase(NameMatch(PathBasename(p)).extension))}

\* C6: A conflict name with an extension that is not allow-listed (the
\* empty extension included) is never processed: its invocation changes no
\* file, runs no merge tool, writes no audit entry, and the path is never
\* in processingFiles.
C6_DisallowedUntouched ==
    /\ [](processingFiles \cap C6_Disallowed = {})
    /\ [][(Invocation /\ last'.path \in C6_Disallowed) => NoEffect]_vars

\* C6 witness: the pipeline has been called for the conflict name without
\* an extension and has refused it
C6_Witness ==
    /\ last.op \in {"event", "scan-call"}
    /\ last.path = ArtifactNoExt
    /\ last.outcome = "disallowed"

\* C7: Dry-run.  With dry-run on and no change made by another program, no
\* file or directory is created, modified or deleted, the merge tool is
\* never spawned, and a call that reaches the merge logs the merge
\* arguments.
C7_DryRunTouchesNothing ==
    (cfg.dryRun /\ extChanges = 0) =>
        /\ files = InitialFiles(tree)
        /\ dirs = InitialDirs(tree)
        /\ spawned = <<>>
        /\ (last.op = "settled" /\ last.outcome = "dry-run") =>
              \E b \in KnownPaths :
                  last.console[1] = MergeLine(PathsOf(last.path).originalFilePath, b,
                                              last.path, PathsOf(last.path).deviceId)

\* the paths below the versions directory
C8_UnderVersions == {f \in KnownPaths : StartsWith(f, "/r/.stversions/")}

\* C8: Ancestors are read-only.  The files under the versions directory
\* and their contents are the same after any sequence of operations as
\* before it.
C8_VersionsReadOnly ==
    \A f \in C8_UnderVersions :
        /\ f \in DOMAIN files <=> f \in DOMAIN InitialFiles(tree)
        /\ f \in DOMAIN files => files[f] = InitialFiles(tree)[f]

\* the timestamp in the name of a snapshot of baseName
C9_Stamp(baseName, f) ==
    SubSeq(PathBasename(f), Len(baseName) + 2, Len(baseName) + 16)

\* C9: Ancestor selection.  The snapshot passed to the merge tool has the
\* greatest timestamp among the matching snapshots that the recursive
\* search of the versions subfolder finds.
C9_LatestSnapshot ==
    \A i \in 1..Len(spawned) :
        \A f \in GetFilesRecursive(PathsOf(spawned[i].conflict).versionsFolder) :
            SnapshotOf(spawned[i].conflict, f) =>
                ~StrLess(C9_Stamp(PathsOf(spawned[i].conflict).baseName, spawned[i].base),
                         C9_Stamp(PathsOf(spawned[i].conflict).baseName, f))

\* the step in which the second run of the program makes its startup scan,
\* no event and no change by another program having occurred since the
\* first
C10_SecondScan ==
    /\ run = 2
    /\ phase = "startup"
    /\ phase' = "scan"
    /\ liveStarted = 0
    /\ extChanges = 0

\* the conflict artifacts of the tree the first run started from
C10_FirstFound == LiveFiles(tree) \cap Artifacts

\* C10 as stated: the second startup scan finds no conflict artifact
C10_SecondScanFindsNone == [][C10_SecondScan => scanTodo' = {}]_vars

\* C10 (amended): Startup-scan idempotence.  The second startup scan finds
\* only artifacts the first one found, and among them exactly those the
\* first run left in place; an artifact on which the first run never ran
\* the merge tool (refused, skipped or failed before the merge) is found
\* again.
C10_SecondScanFindsLeftovers ==
    [][C10_SecondScan =>
         /\ scanTodo' \subseteq C10_FirstFound
         /\ \A a \in C10_FirstFound :
              /\ a \in scanTodo' <=> a \in DOMAIN files
              /\ (\A i \in 1..Len(spawned) : spawned[i].conflict # a)
                    => a \in scanTodo']_vars

\* C10 witness: the second run has scanned a tree that no event and no
\* other program touched and has found artifacts
C10_Witness ==
    /\ run = 2
    /\ phase = "scan"
    /\ scanTodo # {}
    /\ liveStarted = 0
    /\ extChanges = 0

\* the calls in flight that the startup scan made
C11_StartupCalls == {e \in Executions : e.startup}

\* C11: Startup ordering.  The ghost sweep runs before the startup scan,
\* the scan has at most one call of the pipeline in flight at a time, and
\* no call is made for a live event before the last call of the scan has
\* returned: a startup call and a live call are never in flight together.
C11_StartupOrdering ==
    /\ [](/\ Cardinality(C11_StartupCalls) <= 1
          /\ \A e \in C11_StartupCalls : CopiesIn(e, inflight) = 1
          /\ C11_StartupCalls # {} => Executions = C11_StartupCalls)
    /\ [][/\ last'.op = "scan" => last.op \in {"ghosts", "external"} /\ phase = "startup"
          /\ last'.op = "scan-call" => C11_StartupCalls = {}
          /\ last'.op = "event" => C11_StartupCalls = {} /\ scanTodo = {}]_vars

\* C11 witness: the first live event is accepted after the scan has merged
\* an artifact
C11_Witness ==
    /\ last.op = "event"
    /\ last.outcome = "accepted"
    /\ liveStarted = 1
    /\ spawned # <<>>

\* the entries of the audit log, after its header
C12_Entries == IF MergeLogPath \in DOMAIN files THEN Tail(files[MergeLogPath]) ELSE <<>>

\* the entry reports the exit status of the run of the merge tool: exit 0
\* as a clean merge, a positive exit n as n conflicts marked
C12_Describes(entry, call) ==
    /\ PathBasename(call.conflict) = entry.conflict
    /\ ~call.result.error
    /\ call.result.status # <<>>
    /\ \/ call.result.status[1] = 0 /\ entry.status = "Clean Merge"
       \/ /\ call.result.status[1] > 0
          /\ entry.status = "Conflicts Marked (" \o ToString(call.result.status[1]) \o ")"

\* C12: Audit status mapping.  Every audit entry describes a run of the
\* merge tool that was made, with status Clean Merge when the tool exited
\* with 0 and Conflicts Marked (n) when it exited with a positive n.
C12_AuditStatusMapping ==
    \A k \in 1..Len(C12_Entries) :
        \E i \in 1..Len(spawned) : C12_Describes(C12_Entries[k], spawned[i])

\* the outcomes of lines 223-256: original missing, markers found, versions
\* folder missing, no matching snapshot
C13_Skips == {"skip-original", "skip-markers", "skip-versions", "skip-snapshot"}

\* C13: Skip leaves everything untouched.  A call that ends in a skip
\* leaves the artifact in place, changes no file or directory (no backup,
\* no audit entry, the original as it was), runs no merge tool and releases
\* the path; an event for the same artifact that comes next is accepted and
\* starts from the settle wait again.
C13_SkipUntouched ==
    [][/\ (last'.op = "settled" /\ last'.outcome \in C13_Skips) =>
              /\ files' = files
              /\ dirs' = dirs
              /\ spawned' = spawned
              /\ IsFile(last'.path)
              /\ last'.path \notin processingFiles'
       /\ (last.op = "settled" /\ last.outcome \in C13_Skips
              /\ Invocation /\ last'.path = last.path) =>
              /\ last'.outcome = "accepted"
              /\ \E e \in BagToSet(inflight') : e.path = last.path /\ e.pc = "settle"]_vars

\* C13 witness: the artifact skipped by the startup scan for want of a
\* versions folder has been taken up again by a live event and skipped again
C13_Witness ==
    /\ tree = "none"
    /\ phase = "watch"
    /\ liveStarted = 1
    /\ extChanges = 0
    /\ last.op = "settled"
    /\ last.outcome = "skip-versions"

\* the content of the audit log, <<>> when there is none
C14_AuditLog(fs) == IF MergeLogPath \in DOMAIN fs THEN fs[MergeLogPath] ELSE <<>>

\* the step is a stretch of a call in which an operation the claim names
\* failed: the merge tool could not be launched, or reading the original,
\* copying the backup or deleting the artifact threw (lines 229-267), or a
\* temp file could not be removed by the cleanup (line 136)
C14_Failure ==
    \/ /\ last'.op = "settled"
       /\ faults' > faults
       /\ Line("WARN", "Merge log failed") \notin {last'.console[k] : k \in DOMAIN last'.console}
       /\ Len(spawned') > Len(spawned) =>
              \/ spawned'[Len(spawned')].result.error
              \/ ReportsMerge(spawned'[Len(spawned')].result)
    \/ /\ last'.op = "cleaned"
       /\ \E k \in DOMAIN last'.console :
              /\ last'.console[k].level = "WARN"
              /\ StartsWith(last'.console[k].message, "Locked: ")

\* C14: Failure containment.  A failure inside a call that holds the guard
\* ends the call as failed: the error is logged, the path is released, no
\* audit entry is written, and the process goes on.
C14_FailureContained ==
    [][C14_Failure =>
          /\ last'.outcome = "failed"
          /\ last'.path \notin processingFiles'
          /\ C14_AuditLog(files') = C14_AuditLog(files)
          /\ phase' = phase]_vars

(***************************************************************************)
(* The classifier of handleFileEvent applied to file names                 *)
(***************************************************************************)
\* lines 203-211 for a file name: what the match, the .tmp test and the
\* allow-list decide
Classify(fileName) ==
    IF ~ConflictMatch(fileName).matched \/ EndsWith(fileName, ".tmp") THEN "nomatch"
    ELSE IF ~ExtensionAllowed(ConflictMatch(fileName).extension) THEN "disallowed"
    ELSE "accepted"

\* the parts file names are built from
C15_Parts ==
    [baseName  : {"n", "a.b", "x.sync-conflict-20240101-000000-AAAAAAA"},
     separator : {".", "%2F"},
     token     : {"sync-conflict-", "SYNC-Conflict-"},
     deviceId  : {"ABC1234", "abc12z9"},
     extension : {"", "md", "MD", "tmp", "png"}]

\* <baseName><separator>sync-conflict-<date>-<time>-<peer>[.<extension>]
C15_Build(p) ==
    p.baseName \o p.separator \o p.token \o "20240501-120000-" \o p.deviceId
        \o (IF p.extension = "" THEN "" ELSE "." \o p.extension)

\* names that are not built that way
C15_OtherNames ==
    {"note.md", "n.sync-conflict-20240501-120000-ABC1234md",
     "n.sync-conflict-2024051-120000-ABC1234.md",
     "n.sync-conflict-20240501-120000-ABC123.md",
     "n-sync-conflict-20240501-120000-ABC1234.md",
     "n.sync-conflict-20240501-120000-ABC12345.txt",
     "sync-conflict-20240501-120000-ABC1234.md"}

C15_Names == {C15_Build(p) : p \in C15_Parts} \cup C15_OtherNames

\* the name has the form of the claim: a separator, the token, and then the
\* end of the name or a dot
C15_OfForm(name) ==
    \E i \in 1..Len(name) :
        /\ SeparatorAt(name, i) > 0
        /\ ConflictTokenAt(name, i + SeparatorAt(name, i))
        /\ \/ i + SeparatorAt(name, i) + ConflictTokenLen = Len(name) + 1
           \/ /\ Ch(name, i + SeparatorAt(name, i) + ConflictTokenLen) = "."
              /\ i + SeparatorAt(name, i) + ConflictTokenLen < Len(name)

\* the classifier is given a file name
ClassifyName ==
    /\ last.op = "start"
    /\ \E n \in C15_Names :
           last' = [op |-> "classify", path |-> n, outcome |-> Classify(n),
                    console |-> <<>>]
    /\ UNCHANGED <<cfg, files, dirs, processingFiles, inflight, phase, scanTodo, spawned,
                   tree, liveStarted, extChanges, faults, run>>

\* the classifier reads no file and no option but the allow-list
InitClassifier ==
    /\ Init
    /\ tree = "flat"
    /\ cfg = [dryRun |-> FALSE, useUnionMerge |-> FALSE, backupBeforeMerge |-> TRUE,
              mergeLogPath |-> "", watchPath |-> WatchDir]

SpecClassifier == InitClassifier /\ [][ClassifyName]_vars

\* C15: Classifier extraction.  For a name built from a base name, a
\* separator, the token, a peer id and an optional extension that does not
\* end in .tmp, the classifier returns that base name, extension and peer
\* id; a name that ends in .tmp or is not of the form is never accepted.
C15_ClassifierExtraction ==
    last.op = "classify" =>
        /\ \A p \in C15_Parts :
             (last.path = C15_Build(p) /\ ~EndsWith(last.path, ".tmp")) =>
                 /\ ConflictMatch(last.path).matched
                 /\ ConflictMatch(last.path).baseName = p.baseName
                 /\ ConflictMatch(last.path).extension = p.extension
                 /\ ConflictMatch(last.path).deviceId = p.deviceId
        /\ (EndsWith(last.path, ".tmp") \/ ~C15_OfForm(last.path)) =>
               last.outcome # "accepted"

\* C16: The settle delay is skipped during the startup pass.  A call made
\* by the startup scan is never suspended in the settle wait, and a call
\* accepted for a live event is.
C16_SettleSkippedAtStartup ==
    /\ [](\A e \in Executions : e.startup => e.pc # "settle")
    /\ [][(last'.op = "event" /\ last'.outcome = "accepted") =>
             \E e \in BagToSet(inflight') :
                 e.path = last'.path /\ ~e.startup /\ e.pc = "settle"]_vars

\* C17: Vanished artifact.  A call that finds its artifact gone when the
\* settle wait ends returns silently: no log line, no merge, no backup, no
\* audit entry, no file changed, and the path is released.
C17_VanishedSilently ==
    [][(last'.op = "settled" /\ ~Exists(last'.path)) =>
          /\ last'.outcome = "vanished"
          /\ last'.console = <<>>
          /\ files' = files
          /\ dirs' = dirs
          /\ spawned' = spawned
          /\ last'.path \notin processingFiles'
          /\ \A e \in BagToSet(inflight') : e.path # last'.path]_vars

\* C17 witness: a call has found its artifact deleted by another program
C17_Witness ==
    /\ last.op = "settled"
    /\ last.outcome = "vanished"
    /\ extChanges > 0
    /\ ~Exists(last.path)

\* the backup files a step writes
C18_Written ==
    {p \in DOMAIN files' :
        EndsWith(p, ".bak") /\ (p \notin DOMAIN files \/ files'[p] # files[p])}

\* C18: Backup before mutation.  With backupBeforeMerge on and dryRun off,
\* every run of the merge tool comes in the same stretch of the call as the
\* writing of a sibling backup file that holds the content the original had
\* before that stretch; and a backup file is written only with the option on,
\* dry-run off, and in a stretch that goes on to run the merge tool.
C18_BackupBeforeMutation ==
    [][/\ (Len(spawned') > Len(spawned) /\ cfg.backupBeforeMerge /\ ~cfg.dryRun) =>
            /\ last'.op = "settled"
            /\ Len(spawned') = Len(spawned) + 1
            /\ spawned'[Len(spawned')].before = files[spawned'[Len(spawned')].original]
            /\ \E now \in 1..MaxTime :
                 /\ PathDirname(BackupPath(spawned'[Len(spawned')].original, now))
                      = PathDirname(spawned'[Len(spawned')].original)
                 /\ BackupPath(spawned'[Len(spawned')].original, now) \in DOMAIN files'
                 /\ files'[BackupPath(spawned'[Len(spawned')].original, now)]
                      = spawned'[Len(spawned')].before
       /\ C18_Written # {} =>
            /\ cfg.backupBeforeMerge
            /\ ~cfg.dryRun
            /\ last'.op = "settled"
            /\ last'.outcome \in {"merged", "failed"}
            /\ Len(spawned') > Len(spawned)]_vars

\* C18 witness: a merge has just run and the backup made before it holds
\* the content the original had, which the merge has changed
C18_Witness ==
    /\ last.op = "settled"
    /\ last.outcome = "merged"
    /\ cfg.backupBeforeMerge
    /\ spawned # <<>>
    /\ \E now \in 1..MaxTime :
         /\ BackupPath(spawned[Len(spawned)].original, now) \in DOMAIN files
         /\ files[BackupPath(spawned[Len(spawned)].original, now)]
              = spawned[Len(spawned)].before
    /\ files[spawned[Len(spawned)].original] # spawned[Len(spawned)].before

\* the entries of the audit log in the tree fs
C19_Entries(fs) == IF MergeLogPath \in DOMAIN fs THEN Tail(fs[MergeLogPath]) ELSE <<>>

\* the step ends a call that went through the merge and cleanup steps
\* (lines 264-272)
C19_Completes == last'.outcome \in {"success", "dry-run"}

\* C19: One audit entry per success.  With the audit log enabled, a step that
\* ends a call after the merge and cleanup steps appends exactly one entry to
\* the audit log, and every other step appends none; so the entries count the
\* completed calls.
C19_OneEntryPerSuccess ==
    [][cfg.mergeLogPath # "" =>
          IF C19_Completes
          THEN Len(C19_Entries(files')) = Len(C19_Entries(files)) + 1
          ELSE Len(C19_Entries(files')) = Len(C19_Entries(files))]_vars

\* the fields of an audit entry (lines 101-105)
C20_Complete(entry) == DOMAIN entry = {"status", "file", "conflict", "device", "base"}

\* s is a prefix of t
C20_Prefix(s, t) == Len(s) <= Len(t) /\ SubSeq(t, 1, Len(s)) = s

\* C20: Audit log append-only and atomic.  The audit log is the header,
\* written once when the file is created, followed by complete entries; every
\* step leaves the content it had as a prefix of the new content, and what a
\* step adds is one whole entry, that of the call the step belongs to, whatever
\* other calls are in flight.
C20_AppendOnlyAtomic ==
    /\ [](MergeLogPath \in DOMAIN files =>
            /\ Len(files[MergeLogPath]) >= 1
            /\ files[MergeLogPath][1] = MergeLogHeader
            /\ \A i \in 2..Len(files[MergeLogPath]) : C20_Complete(files[MergeLogPath][i]))
    /\ [][/\ C20_Prefix(C14_AuditLog(files), C14_AuditLog(files'))
          /\ Len(C19_Entries(files')) <= Len(C19_Entries(files)) + 1
          /\ Len(C19_Entries(files')) > Len(C19_Entries(files)) =>
                /\ last'.op \in {"settled", "cleaned"}
                /\ C19_Entries(files')[Len(C19_Entries(files'))].conflict
                     = PathBasename(last'.path)]_vars

\* C20 witness: a call has appended its entry to a log that already held one,
\* while another call is suspended
C20_Witness ==
    /\ Len(C19_Entries(files)) >= 2
    /\ last.outcome \in {"success", "dry-run"}
    /\ inflight # EmptyBag

\* the paths whose file a step creates, deletes or rewrites
C21_Changed ==
    {p \in DOMAIN files \cup DOMAIN files' :
        p \notin DOMAIN files \/ p \notin DOMAIN files' \/ files'[p] # files[p]}

\* the step belongs to a call of handleFileEvent
C21_PipelineStep == last'.op \in {"event", "scan-call", "settled", "cleaned"}

\* the backup siblings of the LogicalFile f
C21_Backups(f) == {BackupPath(f, now) : now \in 1..MaxTime}

\* the two transient variants of the artifact a
C21_Temps(a) ==
    {Join(PathDirname(a), "~syncthing~" \o PathBasename(a) \o ".tmp"),
     Join(PathDirname(a), ".syncthing." \o PathBasename(a) \o ".tmp")}

\* C21: Frame of a pipeline execution.  A step of a call for the artifact a
\* with the LogicalFile f changes the file tree only by creating one backup
\* sibling of f, rewriting f, deleting a, deleting the two transient variants
\* of a, and appending to the audit log (whose directory it may create);
\* every other file and directory is as it was.
C21_Frame ==
    [][(C21_PipelineStep /\ (files' # files \/ dirs' # dirs)) =>
          /\ C21_Changed \subseteq
                {PathsOf(last'.path).originalFilePath, last'.path, MergeLogPath}
                    \cup C21_Backups(PathsOf(last'.path).originalFilePath)
                    \cup C21_Temps(last'.path)
          /\ Cardinality(C21_Changed
                           \cap C21_Backups(PathsOf(last'.path).originalFilePath)) <= 1
          /\ C21_Changed \cap C21_Backups(PathsOf(last'.path).originalFilePath)
                \subseteq DOMAIN files'
          /\ PathsOf(last'.path).originalFilePath \in DOMAIN files'
          /\ C21_Changed \cap ({last'.path} \cup C21_Temps(last'.path))
                \subseteq DOMAIN files \ DOMAIN files'
          /\ MergeLogPath \in C21_Changed =>
                C20_Prefix(C14_AuditLog(files), C14_AuditLog(files'))
          /\ dirs \subseteq dirs'
          /\ dirs' \subseteq dirs \cup {PathDirname(MergeLogPath)}]_vars

\* C21 witness: a call has rewritten the LogicalFile and deleted its artifact
\* while another artifact of the same LogicalFile and the snapshots are there
C21_Witness ==
    /\ last.op = "cleaned"
    /\ last.path = ArtifactB
    /\ ArtifactA \in DOMAIN files
    /\ ArtifactB \notin DOMAIN files
    /\ \E v \in VersionFiles(tree) : v \in DOMAIN files

\* C22: Bounded effect of shutdown.  When the process has exited on the
\* termination signal, every call that was in flight was cut off before it
\* merged or deleted its artifact: none was cut off after the deletion of
\* its artifact, with the cleanup of the transient files and the audit entry
\* still to come.
C22_ShutdownBounded ==
    phase = "exited" => \A e \in Executions : e.pc # "cleanup"

\* C23: No marker nesting under interleaving.  Under the markers strategy
\* the merge tool is never run on a LogicalFile that holds conflict markers:
\* every run recorded has a marker-free original, and the step that runs the
\* tool is the one that made the check, on the file as it is when the step
\* begins, whatever other calls are in flight.
C23_NoNesting ==
    /\ [](~cfg.useUnionMerge =>
            \A i \in 1..Len(spawned) : ~HasMarkers(spawned[i].before))
    /\ [][(Len(spawned') > Len(spawned) /\ ~cfg.useUnionMerge) =>
            /\ last'.op = "settled"
            /\ IsFile(spawned'[Len(spawned')].original)
            /\ ~HasMarkers(files[spawned'[Len(spawned')].original])]_vars

\* C23 witness: a call finds the markers that the merge of another artifact
\* of the same LogicalFile has written, while that other call is still at
\* its cleanup wait
C23_Witness ==
    /\ ~cfg.useUnionMerge
    /\ last.op = "settled"
    /\ last.outcome = "skip-markers"
    /\ \E e \in Executions :
         /\ e.pc = "cleanup"
         /\ e.path # last.path
         /\ \E i \in 1..Len(spawned) :
              /\ spawned[i].conflict = e.path
              /\ spawned[i].result.status = <<1>>
              /\ spawned[i].original = PathsOf(last.path).originalFilePath

\* C24: The merge base belongs to the same LogicalFile.  The snapshot passed
\* to the merge tool as base lies directly in the versions subfolder that
\* mirrors the LogicalFile's directory, never in a subfolder of it.
C24_BaseOfSameFile ==
    \A i \in 1..Len(spawned) :
        PathDirname(spawned[i].base) = PathsOf(spawned[i].conflict).versionsFolder

\* the invocation of the step returned before line 213
C25_Rejected ==
    Invocation /\ last'.outcome \in {"busy", "notfile", "nomatch", "disallowed"}

\* C25: Guard membership matches in-flight executions.  processingFiles is
\* always exactly the set of paths with a call between line 213 and its
\* return; an invocation rejected at entry removes nothing from the set and
\* ends no call, and an accepted one adds its own path only.
C25_GuardMatchesInFlight ==
    /\ [](processingFiles = PathsInFlight)
    /\ [][C25_Rejected =>
            /\ processingFiles' = processingFiles
            /\ inflight' = inflight]_vars
    /\ [][(Invocation /\ last'.outcome = "accepted") =>
            /\ last'.path \notin processingFiles
            /\ processingFiles' = processingFiles \cup {last'.path}]_vars

\* C25 witness: an invocation has been rejected for a reason other than the
\* guard while another path is held, and the guard is still held
C25_Witness ==
    /\ last.op = "event"
    /\ last.outcome \in {"notfile", "nomatch", "disallowed"}
    /\ processingFiles # {}
    /\ last.path \notin processingFiles

====
